---- MODULE Spec2Model ----
(***************************************************************************)
(* Model of packages/compiler/src/render3/r3_module_compiler.ts: the       *)
(* NgModule definition emitter.  compileNgModule, createNgModuleType and   *)
(* compileNgModuleDeclarationExpression are pure functions of their        *)
(* metadata; they are modelled as operators that build the output AST      *)
(* (records tagged with the name of the output_ast class), and each is     *)
(* applied by one action to an input drawn in Init.                        *)
(***************************************************************************)
EXTENDS Integers, Sequences, FiniteSets, TLC

VARIABLES input, called, result

vars == <<input, called, result>>

(***************************************************************************)
(* Bounds of the model.                                                    *)
(***************************************************************************)
\* Total number of references over bootstrap, declarations, imports,
\* exports and schemas of one metadata.
MaxTotalRefs == 5

\* The entities a reference may denote.
RefNames == {"A", "B"}

(***************************************************************************)
(* Output AST (output_ast.ts), as far as this file builds it.              *)
(***************************************************************************)
NULL == [kind |-> "null"]

UNDEFINED == [kind |-> "undefined"]

NONE_TYPE == [kind |-> "NoneType"]

literalArr(values) == [kind |-> "LiteralArrayExpr", entries |-> values]

importExpr(id) == [kind |-> "ExternalExpr", value |-> id, typeParams |-> <<>>]

importExprTyped(id, typeParams) ==
  [kind |-> "ExternalExpr", value |-> id, typeParams |-> typeParams]

ExpressionType(value) == [kind |-> "ExpressionType", value |-> value]

typeofExpr(expr) == [kind |-> "TypeofExpr", expr |-> expr]

WrappedNodeExpr(node) == [kind |-> "WrappedNodeExpr", node |-> node]

InvokeFunctionExpr(fn, args, pure) ==
  [kind |-> "InvokeFunctionExpr", fn |-> fn, args |-> args, pure |-> pure]

FunctionExpr(params, statements) ==
  [kind |-> "FunctionExpr", params |-> params, statements |-> statements]

toStmt(expr) == [kind |-> "ExpressionStatement", expr |-> expr]

ReturnStatement(value) == [kind |-> "ReturnStatement", value |-> value]


(***************************************************************************)
(* Collaborators imported from ./util and ./view/util.                     *)
(***************************************************************************)
\* new DefinitionMap(): the entries set so far, in insertion order.
NewDefinitionMap == <<>>

DefinitionMapSet(map, key, value) ==
  Append(map, [key |-> key, value |-> value, quoted |-> FALSE])

toLiteralMap(map) == [kind |-> "LiteralMapExpr", entries |-> map]

\* refs.map(ref => ref.value)
RECURSIVE MapRefValue(_)
MapRefValue(refs) ==
  IF Len(refs) = 0 THEN <<>> ELSE <<Head(refs).value>> \o MapRefValue(Tail(refs))

\* exp.map(ref => o.typeofExpr(ref.type))
RECURSIVE MapRefTypeof(_)
MapRefTypeof(exp) ==
  IF Len(exp) = 0 THEN <<>>
  ELSE <<typeofExpr(Head(exp).type)>> \o MapRefTypeof(Tail(exp))

refsToArray(refs, shouldForwardDeclare) ==
  LET values == literalArr(MapRefValue(refs))
  IN  IF shouldForwardDeclare
        THEN FunctionExpr(<<>>, <<ReturnStatement(values)>>)
        ELSE values

jitOnlyGuardedExpression(expr) ==
  [kind |-> "BinaryOperatorExpr", operator |-> "And",
   lhs |-> [kind |-> "DevOnlyGuard", name |-> "ngJitMode"], rhs |-> expr]

(***************************************************************************)
(* r3_module_compiler.ts                                                   *)
(***************************************************************************)
\* enum R3SelectorScopeMode
Inline == "Inline"

SideEffect == "SideEffect"

Omit == "Omit"

R3SelectorScopeMode == {Inline, SideEffect, Omit}

\* R3Reference[] | null is modelled as a tagged record, so that null and the
\* empty array stay distinct values.
NullRefs == [isNull |-> TRUE, refs |-> <<>>]

SomeRefs(refs) == [isNull |-> FALSE, refs |-> refs]

\* Mutant: an empty list gives an empty tuple type instead of the sentinel.
tupleTypeOf_NoSentinel(exp) ==
  ExpressionType(literalArr(MapRefTypeof(exp)))

tupleTypeOf(exp) ==
  LET types == MapRefTypeof(exp)
  IN  IF Len(exp) > 0 THEN ExpressionType(literalArr(types)) ELSE NONE_TYPE

createNgModuleType(meta) ==
  ExpressionType(importExprTyped("NgModuleDeclaration",
    <<ExpressionType(meta.type.type), tupleTypeOf(meta.declarations),
      tupleTypeOf(meta.imports), tupleTypeOf(meta.exports)>>))

\* Mutant: the length check of imports is missing.
scopeMapOf_ImportsUnchecked(meta) ==
  LET m1 == IF Len(meta.declarations) > 0
              THEN DefinitionMapSet(NewDefinitionMap, "declarations",
                     refsToArray(meta.declarations, meta.containsForwardDecls))
              ELSE NewDefinitionMap
      m2 == DefinitionMapSet(m1, "imports",
              refsToArray(meta.imports, meta.containsForwardDecls))
      m3 == IF Len(meta.exports) > 0
              THEN DefinitionMapSet(m2, "exports",
                     refsToArray(meta.exports, meta.containsForwardDecls))
              ELSE m2
  IN  m3

\* The scope map of generateSetNgModuleScopeCall.
scopeMapOf(meta) ==
  LET m0 == NewDefinitionMap
      m1 == IF Len(meta.declarations) > 0
              THEN DefinitionMapSet(m0, "declarations",
                     refsToArray(meta.declarations, meta.containsForwardDecls))
              ELSE m0
      m2 == IF Len(meta.imports) > 0
              THEN DefinitionMapSet(m1, "imports",
                     refsToArray(meta.imports, meta.containsForwardDecls))
              ELSE m1
      m3 == IF Len(meta.exports) > 0
              THEN DefinitionMapSet(m2, "exports",
                     refsToArray(meta.exports, meta.containsForwardDecls))
              ELSE m2
  IN  m3

\* Mutant: the early return on an empty scope map is missing.
generateSetNgModuleScopeCall_NoEarlyReturn(meta) ==
  toStmt(InvokeFunctionExpr(
    FunctionExpr(<<>>,
      <<toStmt(jitOnlyGuardedExpression(
          InvokeFunctionExpr(importExpr("setNgModuleScope"),
            <<meta.adjacentType, toLiteralMap(scopeMapOf(meta))>>, FALSE)))>>),
    <<>>, FALSE))

generateSetNgModuleScopeCall(meta) ==
  LET moduleType == meta.adjacentType
      scopeMap == scopeMapOf(meta)
      fnCall == InvokeFunctionExpr(importExpr("setNgModuleScope"),
                                   <<moduleType, toLiteralMap(scopeMap)>>, FALSE)
      guardedCall == jitOnlyGuardedExpression(fnCall)
      iife == FunctionExpr(<<>>, <<toStmt(guardedCall)>>)
      iifeCall == InvokeFunctionExpr(iife, <<>>, FALSE)
  IN  IF Len(scopeMap) = 0 THEN NULL ELSE toStmt(iifeCall)

\* Mutant: the length check of bootstrap is missing.
setBootstrap_Unchecked(definitionMap, meta) ==
  DefinitionMapSet(definitionMap, "bootstrap",
    refsToArray(meta.bootstrap, meta.containsForwardDecls))

\* compileNgModule, the bootstrap step.
setBootstrap(definitionMap, meta) ==
  IF Len(meta.bootstrap) > 0
    THEN DefinitionMapSet(definitionMap, "bootstrap",
           refsToArray(meta.bootstrap, meta.containsForwardDecls))
    ELSE definitionMap

\* Mutant: imports is tested by the length of exports.
setInlineScope_ImportsByExports(definitionMap, meta) ==
  LET m1 == IF Len(meta.declarations) > 0
              THEN DefinitionMapSet(definitionMap, "declarations",
                     refsToArray(meta.declarations, meta.containsForwardDecls))
              ELSE definitionMap
      m2 == IF Len(meta.exports) > 0
              THEN DefinitionMapSet(m1, "imports",
                     refsToArray(meta.imports, meta.containsForwardDecls))
              ELSE m1
      m3 == IF Len(meta.exports) > 0
              THEN DefinitionMapSet(m2, "exports",
                     refsToArray(meta.exports, meta.containsForwardDecls))
              ELSE m2
  IN  m3

\* compileNgModule, the Inline branch of the selector scope step.
setInlineScope(definitionMap, meta) ==
  LET m1 == IF Len(meta.declarations) > 0
              THEN DefinitionMapSet(definitionMap, "declarations",
                     refsToArray(meta.declarations, meta.containsForwardDecls))
              ELSE definitionMap
      m2 == IF Len(meta.imports) > 0
              THEN DefinitionMapSet(m1, "imports",
                     refsToArray(meta.imports, meta.containsForwardDecls))
              ELSE m1
      m3 == IF Len(meta.exports) > 0
              THEN DefinitionMapSet(m2, "exports",
                     refsToArray(meta.exports, meta.containsForwardDecls))
              ELSE m2
  IN  m3

\* Mutant: every mode but Inline takes the SideEffect branch.
emitSelectorScope_OmitAsSideEffect(definitionMap, statements, meta) ==
  IF meta.selectorScopeMode = Inline
    THEN [definitionMap |-> setInlineScope(definitionMap, meta),
          statements |-> statements]
    ELSE LET setNgModuleScopeCall == generateSetNgModuleScopeCall(meta)
         IN  [definitionMap |-> definitionMap,
              statements |-> IF setNgModuleScopeCall # NULL
                               THEN Append(statements, setNgModuleScopeCall)
                               ELSE statements]

\* compileNgModule, the selector scope step: the definition map and the
\* statements after it.
emitSelectorScope(definitionMap, statements, meta) ==
  IF meta.selectorScopeMode = Inline
    THEN [definitionMap |-> setInlineScope(definitionMap, meta),
          statements |-> statements]
    ELSE IF meta.selectorScopeMode = SideEffect
      THEN LET setNgModuleScopeCall == generateSetNgModuleScopeCall(meta)
           IN  [definitionMap |-> definitionMap,
                statements |-> IF setNgModuleScopeCall # NULL
                                 THEN Append(statements, setNgModuleScopeCall)
                                 ELSE statements]
      ELSE [definitionMap |-> definitionMap, statements |-> statements]

\* Mutant: schemas is lowered like the other reference lists.
setSchemas_ForwardDecl(definitionMap, meta) ==
  IF ~meta.schemas.isNull /\ Len(meta.schemas.refs) > 0
    THEN DefinitionMapSet(definitionMap, "schemas",
           refsToArray(meta.schemas.refs, meta.containsForwardDecls))
    ELSE definitionMap

\* compileNgModule, the schemas step.
setSchemas(definitionMap, meta) ==
  IF ~meta.schemas.isNull /\ Len(meta.schemas.refs) > 0
    THEN DefinitionMapSet(definitionMap, "schemas",
           literalArr(MapRefValue(meta.schemas.refs)))
    ELSE definitionMap

\* Mutant: the registration names internalType instead of adjacentType.
emitId_InternalType(definitionMap, statements, meta) ==
  IF meta.id # NULL
    THEN [definitionMap |-> DefinitionMapSet(definitionMap, "id", meta.id),
          statements |->
            Append(statements,
              toStmt(InvokeFunctionExpr(importExpr("registerNgModuleType"),
                                        <<meta.internalType, meta.id>>, FALSE)))]
    ELSE [definitionMap |-> definitionMap, statements |-> statements]

\* compileNgModule, the id step: the definition map and the statements
\* after it.
emitId(definitionMap, statements, meta) ==
  IF meta.id # NULL
    THEN [definitionMap |-> DefinitionMapSet(definitionMap, "id", meta.id),
          statements |->
            Append(statements,
              toStmt(InvokeFunctionExpr(importExpr("registerNgModuleType"),
                                        <<meta.adjacentType, meta.id>>, FALSE)))]
    ELSE [definitionMap |-> definitionMap, statements |-> statements]

\* Mutant: the id step runs before the selector scope and schemas steps.
compileNgModule_IdFirst(meta) ==
  LET m0 == DefinitionMapSet(NewDefinitionMap, "type", meta.internalType)
      m1 == setBootstrap(m0, meta)
      s2 == emitId(m1, <<>>, meta)
      s3 == emitSelectorScope(s2.definitionMap, s2.statements, meta)
      m4 == setSchemas(s3.definitionMap, meta)
  IN  [expression |-> InvokeFunctionExpr(importExpr("defineNgModule"),
                        <<toLiteralMap(m4)>>, TRUE),
       type |-> createNgModuleType(meta),
       statements |-> s3.statements]

compileNgModule(meta) ==
  LET m0 == DefinitionMapSet(NewDefinitionMap, "type", meta.internalType)
      m1 == setBootstrap(m0, meta)
      s2 == emitSelectorScope(m1, <<>>, meta)
      m3 == setSchemas(s2.definitionMap, meta)
      s4 == emitId(m3, s2.statements, meta)
      expression == InvokeFunctionExpr(importExpr("defineNgModule"),
                      <<toLiteralMap(s4.definitionMap)>>, TRUE)
      type == createNgModuleType(meta)
  IN  [expression |-> expression, type |-> type, statements |-> s4.statements]

\* Mutant: a field is set only when it is a non-empty array.
setDeclared_NonEmpty(definitionMap, key, value) ==
  IF value # UNDEFINED /\ value.node # "[]"
    THEN DefinitionMapSet(definitionMap, key, WrappedNodeExpr(value))
    ELSE definitionMap

\* One optional field of R3DeclareNgModuleFacade.
setDeclared(definitionMap, key, value) ==
  IF value # UNDEFINED
    THEN DefinitionMapSet(definitionMap, key, WrappedNodeExpr(value))
    ELSE definitionMap

compileNgModuleDeclarationExpression(meta) ==
  LET m0 == DefinitionMapSet(NewDefinitionMap, "type", WrappedNodeExpr(meta.type))
      m1 == setDeclared(m0, "bootstrap", meta.bootstrap)
      m2 == setDeclared(m1, "declarations", meta.declarations)
      m3 == setDeclared(m2, "imports", meta.imports)
      m4 == setDeclared(m3, "exports", meta.exports)
      m5 == setDeclared(m4, "schemas", meta.schemas)
      m6 == setDeclared(m5, "id", meta.id)
  IN  InvokeFunctionExpr(importExpr("defineNgModule"), <<toLiteralMap(m6)>>, FALSE)

(***************************************************************************)
(* Inputs.                                                                 *)
(***************************************************************************)
\* R3Reference: a value expression and a type expression of one entity.
Ref(n) == [value |-> [kind |-> "ReadVarExpr", name |-> n],
           type |-> [kind |-> "TypeRefExpr", name |-> n]]

Refs == {Ref(n) : n \in RefNames}

RECURSIVE RefListsOfLen(_)
RefListsOfLen(k) ==
  IF k = 0 THEN {<<>>}
  ELSE {Append(s, r) : s \in RefListsOfLen(k - 1), r \in Refs}

\* The reference lists of at most n entries.
RefLists(n) == UNION {RefListsOfLen(k) : k \in 0..n}

ModuleType == [value |-> [kind |-> "ReadVarExpr", name |-> "M"],
               type |-> [kind |-> "TypeRefExpr", name |-> "M"]]

InternalType == [kind |-> "ReadVarExpr", name |-> "M_internal"]

AdjacentType == [kind |-> "ReadVarExpr", name |-> "M_adjacent"]

IdExpr == [kind |-> "LiteralExpr", value |-> "module-id"]

\* The opaque values a declared field may hold: an empty or a non-empty array.
OpaqueValues == {[kind |-> "Opaque", node |-> "[]"], [kind |-> "Opaque", node |-> "[A]"]}

DeclaredValues == {UNDEFINED} \cup OpaqueValues

Facades ==
  [tag : {"R3DeclareNgModuleFacade"},
   type : {[kind |-> "Opaque", node |-> "M"]},
   bootstrap : DeclaredValues, declarations : DeclaredValues,
   imports : DeclaredValues, exports : DeclaredValues,
   schemas : DeclaredValues,
   id : {UNDEFINED, [kind |-> "Opaque", node |-> "id"]}]

NoResult == [kind |-> "none"]

IsMetadata == input.tag = "R3NgModuleMetadata"

IsFacade == input.tag = "R3DeclareNgModuleFacade"

InitMetadata ==
  \E bootstrap \in RefLists(MaxTotalRefs) :
  \E declarations \in RefLists(MaxTotalRefs - Len(bootstrap)) :
  \E imports \in RefLists(MaxTotalRefs - Len(bootstrap) - Len(declarations)) :
  \E exports \in RefLists(MaxTotalRefs - Len(bootstrap) - Len(declarations)
                            - Len(imports)) :
  \E schemas \in {NullRefs} \cup
                 {SomeRefs(s) : s \in RefLists(MaxTotalRefs - Len(bootstrap)
                                   - Len(declarations) - Len(imports) - Len(exports))} :
  \E id \in {NULL, IdExpr} :
  \E selectorScopeMode \in R3SelectorScopeMode :
  \E containsForwardDecls \in BOOLEAN :
    input = [tag |-> "R3NgModuleMetadata",
             type |-> ModuleType, internalType |-> InternalType,
             adjacentType |-> AdjacentType,
             bootstrap |-> bootstrap, declarations |-> declarations,
             imports |-> imports, exports |-> exports,
             selectorScopeMode |-> selectorScopeMode,
             containsForwardDecls |-> containsForwardDecls,
             schemas |-> schemas, id |-> id]

Init ==
  /\ InitMetadata \/ input \in Facades
  /\ called = "none"
  /\ result = NoResult

CompileNgModule ==
  /\ called = "none"
  /\ IsMetadata
  /\ called' = "compileNgModule"
  /\ result' = compileNgModule(input)
  /\ UNCHANGED input

CreateNgModuleType ==
  /\ called = "none"
  /\ IsMetadata
  /\ called' = "createNgModuleType"
  /\ result' = createNgModuleType(input)
  /\ UNCHANGED input

CompileNgModuleDeclarationExpression ==
  /\ called = "none"
  /\ IsFacade
  /\ called' = "compileNgModuleDeclarationExpression"
  /\ result' = compileNgModuleDeclarationExpression(input)
  /\ UNCHANGED input

Next ==
  \/ CompileNgModule
  \/ CreateNgModuleType
  \/ CompileNgModuleDeclarationExpression

Spec == Init /\ [][Next]_vars

(***************************************************************************)
(* Reading the output.                                                     *)
(***************************************************************************)
Compiled == called = "compileNgModule"

Typed == called = "createNgModuleType"

Declared == called = "compileNgModuleDeclarationExpression"

ScopeKeys == {"declarations", "imports", "exports"}

LoweredKeys == {"bootstrap"} \cup ScopeKeys

FieldOrder == <<"type", "bootstrap", "declarations", "imports", "exports", "schemas", "id">>

\* The entries of the literal map passed to defineNgModule.
MainMap == result.expression.args[1].entries

Statements == result.statements

HasKey(entries, k) == \E i \in 1..Len(entries) : entries[i].key = k

ValueOf(entries, k) == entries[CHOOSE i \in 1..Len(entries) : entries[i].key = k].value

KeysOf(entries) == [i \in 1..Len(entries) |-> entries[i].key]

\* (function() { (ngJitMode guard) && setNgModuleScope(...); })()
IsScopeStmt(s) ==
  /\ s.kind = "ExpressionStatement"
  /\ s.expr.kind = "InvokeFunctionExpr"
  /\ s.expr.fn.kind = "FunctionExpr"
  /\ Len(s.expr.args) = 0
  /\ Len(s.expr.fn.params) = 0
  /\ Len(s.expr.fn.statements) = 1
  /\ LET g == s.expr.fn.statements[1]
     IN  /\ g.kind = "ExpressionStatement"
         /\ g.expr.kind = "BinaryOperatorExpr"
         /\ g.expr.operator = "And"
         /\ g.expr.lhs.kind = "DevOnlyGuard"
         /\ g.expr.rhs.kind = "InvokeFunctionExpr"
         /\ g.expr.rhs.fn.kind = "ExternalExpr"
         /\ g.expr.rhs.fn.value = "setNgModuleScope"
         /\ Len(g.expr.rhs.args) = 2
         /\ g.expr.rhs.args[2].kind = "LiteralMapExpr"

\* The entries of the scope map of a scope-registration statement.
ScopeMapIn(s) == s.expr.fn.statements[1].expr.rhs.args[2].entries

\* registerNgModuleType(...), not wrapped in anything.
IsIdStmt(s) ==
  /\ s.kind = "ExpressionStatement"
  /\ s.expr.kind = "InvokeFunctionExpr"
  /\ s.expr.fn.kind = "ExternalExpr"
  /\ s.expr.fn.value = "registerNgModuleType"

ScopeStmtAt == {i \in 1..Len(Statements) : IsScopeStmt(Statements[i])}

IdStmtAt == {i \in 1..Len(Statements) : IsIdStmt(Statements[i])}

NoScopeKeyInMainMap == \A k \in ScopeKeys : ~HasKey(MainMap, k)

ScopeAllEmpty == \A k \in ScopeKeys : Len(input[k]) = 0

ValuesOf(refs) == [i \in 1..Len(refs) |-> refs[i].value]

IsDirectArray(v, refs) ==
  /\ v.kind = "LiteralArrayExpr"
  /\ v.entries = ValuesOf(refs)

IsDeferredArray(v, refs) ==
  /\ v.kind = "FunctionExpr"
  /\ Len(v.params) = 0
  /\ Len(v.statements) = 1
  /\ v.statements[1].kind = "ReturnStatement"
  /\ IsDirectArray(v.statements[1].value, refs)

(***************************************************************************)
(* Properties.                                                             *)
(***************************************************************************)

\* C1: in SideEffect mode with a non-empty declarations, imports or exports,
\* the main map has none of the three scope keys and statements holds exactly
\* one guarded scope-registration statement, whose scope map has exactly the
\* keys whose input list is non-empty.
C1_SideEffectScope ==
  (Compiled /\ input.selectorScopeMode = SideEffect /\ ~ScopeAllEmpty) =>
    /\ NoScopeKeyInMainMap
    /\ Cardinality(ScopeStmtAt) = 1
    /\ \A i \in ScopeStmtAt :
         /\ \A k \in ScopeKeys :
              HasKey(ScopeMapIn(Statements[i]), k) <=> Len(input[k]) > 0
         /\ \A j \in 1..Len(ScopeMapIn(Statements[i])) :
              ScopeMapIn(Statements[i])[j].key \in ScopeKeys

C1_Witness ==
  /\ Compiled
  /\ input.selectorScopeMode = SideEffect
  /\ input.declarations = <<Ref("A")>>
  /\ input.imports = <<>>
  /\ input.exports = <<>>
  /\ Cardinality(ScopeStmtAt) = 1
  /\ \A i \in ScopeStmtAt : KeysOf(ScopeMapIn(Statements[i])) = <<"declarations">>

\* C2 as stated: in SideEffect mode with declarations, imports and exports all
\* empty, statements is empty whatever the other metadata fields are.
C2_Original ==
  (Compiled /\ input.selectorScopeMode = SideEffect /\ ScopeAllEmpty) =>
    Statements = <<>>

\* C2 as amended: in SideEffect mode with declarations, imports and exports
\* all empty, statements holds no scope-registration statement, and it is
\* empty exactly when id is absent.
C2_NoNoOpScopeCall ==
  (Compiled /\ input.selectorScopeMode = SideEffect /\ ScopeAllEmpty) =>
    /\ ScopeStmtAt = {}
    /\ (Statements = <<>>) <=> (input.id = NULL)

C2_Witness ==
  /\ Compiled
  /\ input.selectorScopeMode = SideEffect
  /\ ScopeAllEmpty
  /\ input.id # NULL
  /\ Len(input.bootstrap) > 0
  /\ Len(Statements) = 1
  /\ ScopeStmtAt = {}

\* C3: in Omit mode, whatever declarations, imports and exports hold,
\* statements has no scope-registration statement and the main map has none
\* of the three scope keys.
C3_OmitScope ==
  (Compiled /\ input.selectorScopeMode = Omit) =>
    /\ ScopeStmtAt = {}
    /\ NoScopeKeyInMainMap

C3_Witness ==
  /\ Compiled
  /\ input.selectorScopeMode = Omit
  /\ \A k \in ScopeKeys : Len(input[k]) > 0
  /\ NoScopeKeyInMainMap

\* C4: in Inline mode the main map has each of declarations, imports, exports
\* exactly when that input list is non-empty, and statements has no
\* scope-registration statement.
C4_InlineScope ==
  (Compiled /\ input.selectorScopeMode = Inline) =>
    /\ \A k \in ScopeKeys : HasKey(MainMap, k) <=> Len(input[k]) > 0
    /\ ScopeStmtAt = {}

C4_Witness ==
  /\ Compiled
  /\ input.selectorScopeMode = Inline
  /\ Len(input.declarations) > 0
  /\ Len(input.imports) = 0
  /\ Len(input.exports) > 0
  /\ HasKey(MainMap, "declarations")
  /\ ~HasKey(MainMap, "imports")
  /\ HasKey(MainMap, "exports")

\* C5: in every mode, with id present the main map has an id key and
\* statements holds exactly one unguarded registerNgModuleType(adjacentType,
\* id) statement besides any scope statement; with id absent there is no
\* registration statement and no id key.
C5_IdRegistration ==
  Compiled =>
    IF input.id # NULL
      THEN /\ HasKey(MainMap, "id")
           /\ ValueOf(MainMap, "id") = input.id
           /\ Cardinality(IdStmtAt) = 1
           /\ \A i \in IdStmtAt :
                Statements[i].expr.args = <<input.adjacentType, input.id>>
           /\ Len(Statements) = Cardinality(ScopeStmtAt) + 1
      ELSE /\ ~HasKey(MainMap, "id")
           /\ IdStmtAt = {}
           /\ Len(Statements) = Cardinality(ScopeStmtAt)

C5_Witness ==
  /\ Compiled
  /\ input.id # NULL
  /\ input.selectorScopeMode = SideEffect
  /\ Cardinality(ScopeStmtAt) = 1
  /\ Cardinality(IdStmtAt) = 1
  /\ Len(Statements) = 2

\* C6: in every mode the main map has the type key, set to internalType, has
\* the bootstrap key exactly when bootstrap is non-empty, and has the schemas
\* key exactly when schemas is non-null and non-empty.
C6_TypeBootstrapSchemas ==
  Compiled =>
    /\ HasKey(MainMap, "type")
    /\ ValueOf(MainMap, "type") = input.internalType
    /\ HasKey(MainMap, "bootstrap") <=> Len(input.bootstrap) > 0
    /\ HasKey(MainMap, "schemas") <=>
         (~input.schemas.isNull /\ Len(input.schemas.refs) > 0)

C6_Witness ==
  /\ Compiled
  /\ ~input.schemas.isNull
  /\ Len(input.schemas.refs) = 0
  /\ Len(input.bootstrap) > 0
  /\ HasKey(MainMap, "bootstrap")
  /\ ~HasKey(MainMap, "schemas")

\* C7: every bootstrap, declarations, imports or exports value emitted, in the
\* main map or in the side-effect scope map, is a closure returning the array
\* when containsForwardDecls is true and the array itself when it is false,
\* the array listing the references' value expressions in input order; the
\* schemas value is always the array itself.
C7_ForwardDeclWrapping ==
  Compiled =>
    LET Lowered(v, refs) == IF input.containsForwardDecls
                              THEN IsDeferredArray(v, refs)
                              ELSE IsDirectArray(v, refs)
    IN  /\ \A k \in LoweredKeys :
             HasKey(MainMap, k) => Lowered(ValueOf(MainMap, k), input[k])
        /\ \A i \in ScopeStmtAt : \A k \in ScopeKeys :
             HasKey(ScopeMapIn(Statements[i]), k) =>
               Lowered(ValueOf(ScopeMapIn(Statements[i]), k), input[k])
        /\ HasKey(MainMap, "schemas") =>
             IsDirectArray(ValueOf(MainMap, "schemas"), input.schemas.refs)

C7_Witness ==
  /\ Compiled
  /\ input.containsForwardDecls
  /\ input.selectorScopeMode = Inline
  /\ input.imports = <<Ref("B"), Ref("A")>>
  /\ Len(input.schemas.refs) > 0
  /\ IsDeferredArray(ValueOf(MainMap, "imports"), input.imports)
  /\ ValueOf(MainMap, "schemas").kind = "LiteralArrayExpr"

\* C8: compileNgModuleDeclarationExpression returns only the defineNgModule
\* call, whose map holds type and, of bootstrap, declarations, imports,
\* exports, schemas, id, exactly the fields present in the input (empty or
\* not), in that fixed order, each wrapped as given.
C8_DeclarationPath ==
  Declared =>
    LET Present(k) == k = "type" \/ input[k] # UNDEFINED
    IN  /\ result.kind = "InvokeFunctionExpr"
        /\ DOMAIN result = {"kind", "fn", "args", "pure"}
        /\ result.fn.value = "defineNgModule"
        /\ Len(result.args) = 1
        /\ result.args[1].kind = "LiteralMapExpr"
        /\ KeysOf(result.args[1].entries) = SelectSeq(FieldOrder, Present)
        /\ \A i \in 1..Len(result.args[1].entries) :
             LET e == result.args[1].entries[i]
             IN  e.value = [kind |-> "WrappedNodeExpr", node |-> input[e.key]]

C8_Witness ==
  /\ Declared
  /\ input.bootstrap = UNDEFINED
  /\ input.declarations = UNDEFINED
  /\ input.imports = [kind |-> "Opaque", node |-> "[]"]
  /\ input.exports = UNDEFINED
  /\ input.schemas = UNDEFINED
  /\ input.id = UNDEFINED
  /\ KeysOf(result.args[1].entries) = <<"type", "imports">>

\* C9: the type built by createNgModuleType is the module-declaration type
\* instantiated with the unit's own type and with, for each of declarations,
\* imports and exports, the sentinel type when the list is empty and the tuple
\* of its references' type expressions in order otherwise; nothing else of
\* the metadata enters it.
C9_ModuleType ==
  (Typed \/ Compiled) =>
    LET t == IF Typed THEN result ELSE result.type
        TupleOk(p, refs) ==
          IF Len(refs) = 0
            THEN p.kind = "NoneType"
            ELSE /\ p.kind = "ExpressionType"
                 /\ p.value.kind = "LiteralArrayExpr"
                 /\ p.value.entries =
                      [i \in 1..Len(refs) |->
                         [kind |-> "TypeofExpr", expr |-> refs[i].type]]
    IN  /\ t.kind = "ExpressionType"
        /\ t.value.kind = "ExternalExpr"
        /\ t.value.value = "NgModuleDeclaration"
        /\ Len(t.value.typeParams) = 4
        /\ t.value.typeParams[1] =
             [kind |-> "ExpressionType", value |-> input.type.type]
        /\ TupleOk(t.value.typeParams[2], input.declarations)
        /\ TupleOk(t.value.typeParams[3], input.imports)
        /\ TupleOk(t.value.typeParams[4], input.exports)

C9_Witness ==
  /\ Typed
  /\ input.declarations = <<>>
  /\ input.imports = <<Ref("A"), Ref("B")>>
  /\ Len(input.bootstrap) > 0
  /\ Len(input.schemas.refs) > 0
  /\ result.value.typeParams[2].kind = "NoneType"
  /\ Len(result.value.typeParams[3].value.entries) = 2

\* C10: the keys of the main map are pairwise distinct and follow the fixed
\* order type, bootstrap, declarations, imports, exports, schemas, id,
\* starting with type; statements has at most two entries, the
\* scope-registration statement before the id-registration statement.
C10_OutputOrder ==
  Compiled =>
    LET keys == KeysOf(MainMap)
        Pos(k) == CHOOSE p \in 1..Len(FieldOrder) : FieldOrder[p] = k
    IN  /\ Len(keys) >= 1
        /\ keys[1] = "type"
        /\ \A i \in 1..Len(keys) : \E p \in 1..Len(FieldOrder) : FieldOrder[p] = keys[i]
        /\ \A i, j \in 1..Len(keys) : i < j => Pos(keys[i]) < Pos(keys[j])
        /\ Len(Statements) <= 2
        /\ \A i \in ScopeStmtAt : \A j \in IdStmtAt : i < j

C10_Witness ==
  /\ Compiled
  /\ KeysOf(MainMap) = FieldOrder
  /\ Len(input.imports) = 1

C10_WitnessStatements ==
  /\ Compiled
  /\ Len(Statements) = 2
  /\ IsScopeStmt(Statements[1])
  /\ IsIdStmt(Statements[2])

====
